---- MODULE Spec2Model ----
(***************************************************************************)
(* Model of src/command.cpp: the Command pattern around a stub editor.     *)
(*                                                                         *)
(*   Editor          the receiver; its only state is the string filepath   *)
(*   *Command        six command classes with Execute and Undo             *)
(*   CommandHistory  a vector of Command* used as a stack                  *)
(*   Application     the sender: Run reads a line, ParseInput builds a     *)
(*                   command, Run executes it and pushes it                *)
(*                                                                         *)
(* A std::string is modelled as the sequence of its characters, so that    *)
(* TokenizeInput really splits a line at its whitespace.                   *)
(***************************************************************************)
EXTENDS Naturals, Sequences, FiniteSets, TLC

VARIABLES
    editor,     \* Application::editor, the one Editor (filepath, filecontent)
    commands,   \* CommandHistory::commands, the vector of Command*
    allocated,  \* number of command objects built by `new` so far
    out,        \* what the last step wrote to cout, in order
    pc,         \* "awaiting": Run is at the top of its loop; "parsed": after line 147 with
                \* a command; "executed": after line 151; "crashed": the process died
    ub,         \* TRUE once the program has executed undefined behaviour
    popped,     \* the Command*s CommandHistory::Pop has returned to its caller, in order
    last,       \* the last step: its operation, with the line read or the command undone
    scenario,   \* how many lines of Scenario the session consists of so far; Off otherwise
    command,    \* Run's local `command` between ParseInput and Push; nullptr otherwise
    calls,      \* the receiver operations the last step called, with their arguments
    executed    \* the ptr of every command whose Execute was called, in call order

vars == <<editor, commands, allocated, out, pc, ub, popped, last, scenario,
          command, calls, executed>>

---------------------------------------------------------------------------
(* Bounds of the model.                                                    *)

\* No more than MaxCmds command objects are ever allocated, so the history
\* never holds more than MaxCmds commands.
MaxCmds == 3

---------------------------------------------------------------------------
(* Strings: the literals of ParseInput and the words typed by the user.    *)

EmptyString == <<>>

StrSave   == <<"s", "a", "v", "e">>
StrSaveas == <<"s", "a", "v", "e", "a", "s">>
StrOpen   == <<"o", "p", "e", "n">>
StrPrint  == <<"p", "r", "i", "n", "t">>
StrClose  == <<"c", "l", "o", "s", "e">>
StrNew    == <<"n", "e", "w">>

\* Words that are no command name.
StrCapSave == <<"S", "a", "v", "e">>
StrFoo      == <<"f", "o", "o">>
StrBar      == <<"b", "a", "r">>
StrExit     == <<"e", "x", "i", "t">>
StrQuit     == <<"q", "u", "i", "t">>

\* File paths, with embedded punctuation.
StrATxt == <<"a", ".", "t", "x", "t">>
StrBTxt == <<"b", ".", "t", "x", "t">>

StrSpace  == <<" ">>
StrTab == <<"\t">>

\* IsSpace with the dot of a file name taken for a separator.
IsSpace_Dot(c) == c \in {" ", "\t", "\n", "\r", "\f", "."}

\* operator>> skips the characters std::isspace accepts in the "C" locale.
IsSpace(c) == c \in {" ", "\t", "\n", "\r", "\f"}

---------------------------------------------------------------------------
(* Application::TokenizeInput: `while (iss >> token) tokens.push_back`.    *)

RECURSIVE Scan(_, _, _, _)
\* s: the line; i: next character; token: the characters of the token being
\* read (empty between tokens); tokens: the tokens pushed so far.
Scan(s, i, token, tokens) ==
    IF i > Len(s)
    THEN IF token = EmptyString THEN tokens ELSE Append(tokens, token)
    ELSE IF IsSpace(s[i])
         THEN Scan(s, i + 1, EmptyString,
                   IF token = EmptyString THEN tokens ELSE Append(tokens, token))
         ELSE Scan(s, i + 1, Append(token, s[i]), tokens)

TokenizeInput(s) == Scan(s, 1, EmptyString, <<>>)

---------------------------------------------------------------------------
(* Console output: one tag per string the program writes to cout.          *)

MsgPrompt          == "Prompt"
MsgSave            == "Save"
MsgSaveAs          == "SaveAs"
MsgOpen            == "Open"
MsgPrint           == "Print"
MsgClose           == "Close"
MsgRevert          == "Revert"
MsgCreateNew       == "CreateNew"
MsgMissingNewpath  == "MissingNewpath"
MsgMissingFilepath == "MissingFilepath"
MsgNotRecognized   == "NotRecognized"

---------------------------------------------------------------------------
(* Editor, the receiver.  Every operation returns the editor afterwards,   *)
(* what it printed, and the call itself: its name and its arguments.       *)

Call(op, args) == [op |-> op, args |-> args]

EditorDefault == [filepath |-> EmptyString, filecontent |-> EmptyString]

\* Open that remembers the path it opened.
EditorOpen_SetsPath(ed, filepath) ==
    [ed |-> [ed EXCEPT !.filepath = filepath], out |-> <<MsgOpen>>,
     calls |-> <<Call("Open", <<filepath>>)>>]

\* SaveAs that makes the new path the current one.
EditorSaveAs_SetsPath(ed, newpath) ==
    [ed |-> [ed EXCEPT !.filepath = newpath], out |-> <<MsgSaveAs>>,
     calls |-> <<Call("SaveAs", <<newpath>>)>>]

EditorSave(ed) ==
    [ed |-> ed, out |-> <<MsgSave>>, calls |-> <<Call("Save", <<>>)>>]
EditorSaveAs(ed, newpath) ==
    [ed |-> ed, out |-> <<MsgSaveAs>>, calls |-> <<Call("SaveAs", <<newpath>>)>>]
EditorOpen(ed, filepath) ==
    [ed |-> ed, out |-> <<MsgOpen>>, calls |-> <<Call("Open", <<filepath>>)>>]
EditorPrint(ed) ==
    [ed |-> ed, out |-> <<MsgPrint>>, calls |-> <<Call("Print", <<>>)>>]
EditorClose(ed) ==
    [ed |-> ed, out |-> <<MsgClose>>, calls |-> <<Call("Close", <<>>)>>]
EditorRevert(ed) ==
    [ed |-> ed, out |-> <<MsgRevert>>, calls |-> <<Call("Revert", <<>>)>>]
EditorCreateNew(ed) ==
    [ed |-> ed, out |-> <<MsgCreateNew>>, calls |-> <<Call("CreateNew", <<>>)>>]
EditorSetPath(ed, path) ==
    [ed |-> [ed EXCEPT !.filepath = path], out |-> <<>>,
     calls |-> <<Call("SetPath", <<path>>)>>]
EditorGetPath(ed) == ed.filepath

---------------------------------------------------------------------------
(* The command classes.  ptr stands for the address `new` returned: it is  *)
(* what tells two commands with equal fields apart.                        *)

nullptr == [kind |-> "nullptr"]

\* A pointer read from outside the vector's elements.
dangling == [kind |-> "dangling"]

SaveCommand(ptr)  == [kind |-> "Save", ptr |-> ptr]
\* SaveAsCommand with the two path members initialised the wrong way round.
SaveAsCommand_Swapped(ptr, ed, newpath) ==
    [kind |-> "SaveAs", ptr |-> ptr, newpath |-> EditorGetPath(ed), oldpath |-> newpath]

SaveAsCommand(ptr, ed, newpath) ==
    [kind |-> "SaveAs", ptr |-> ptr, newpath |-> newpath, oldpath |-> EditorGetPath(ed)]
OpenCommand(ptr, filepath) == [kind |-> "Open", ptr |-> ptr, filepath |-> filepath]
PrintCommand(ptr) == [kind |-> "Print", ptr |-> ptr]
CloseCommand(ptr) == [kind |-> "Close", ptr |-> ptr]
NewCommand(ptr)   == [kind |-> "New", ptr |-> ptr]

\* Execute with SaveAsCommand calling Save, as SaveCommand does.
Execute_SaveForSaveAs(cmd, ed) ==
    CASE cmd.kind = "Save"   -> EditorSave(ed)
      [] cmd.kind = "SaveAs" -> EditorSave(ed)
      [] cmd.kind = "Open"   -> EditorOpen(ed, cmd.filepath)
      [] cmd.kind = "Print"  -> EditorPrint(ed)
      [] cmd.kind = "Close"  -> EditorClose(ed)
      [] cmd.kind = "New"    -> EditorCreateNew(ed)

\* command->Execute(), by virtual dispatch on the command's class.
Execute(cmd, ed) ==
    CASE cmd.kind = "Save"   -> EditorSave(ed)
      [] cmd.kind = "SaveAs" -> EditorSaveAs(ed, cmd.newpath)
      [] cmd.kind = "Open"   -> EditorOpen(ed, cmd.filepath)
      [] cmd.kind = "Print"  -> EditorPrint(ed)
      [] cmd.kind = "Close"  -> EditorClose(ed)
      [] cmd.kind = "New"    -> EditorCreateNew(ed)

\* Undo with Close reopening the path the receiver had when the command
\* was built.
Undo_CloseCaptured(cmd, ed) ==
    CASE cmd.kind = "Save"   -> EditorRevert(ed)
      [] cmd.kind = "SaveAs" -> EditorSetPath(ed, cmd.oldpath)
      [] cmd.kind = "Open"   -> EditorClose(ed)
      [] cmd.kind = "Print"  -> [ed |-> ed, out |-> <<>>, calls |-> <<>>]
      [] cmd.kind = "Close"  -> EditorOpen(ed, cmd.born)
      [] cmd.kind = "New"    -> EditorClose(ed)

\* command->Undo().
Undo(cmd, ed) ==
    CASE cmd.kind = "Save"   -> EditorRevert(ed)
      [] cmd.kind = "SaveAs" -> EditorSetPath(ed, cmd.oldpath)
      [] cmd.kind = "Open"   -> EditorClose(ed)
      [] cmd.kind = "Print"  -> [ed |-> ed, out |-> <<>>, calls |-> <<>>]
      [] cmd.kind = "Close"  -> EditorOpen(ed, EditorGetPath(ed))
      [] cmd.kind = "New"    -> EditorClose(ed)

---------------------------------------------------------------------------
(* CommandHistory.                                                         *)

\* Push that inserts at the front of the vector.
Push_Front(cmds, cmd) == <<cmd>> \o cmds

\* Push that stores into the last slot in place of growing the vector.
Push_Overwrite(cmds, cmd) ==
    IF cmds = <<>> THEN <<cmd>> ELSE [cmds EXCEPT ![Len(cmds)] = cmd]

Push(cmds, cmd) == Append(cmds, cmd)

\* Pop that takes the oldest element: a queue instead of a stack.
Pop_Front(cmds) == [command |-> cmds[1], commands |-> Tail(cmds)]


\* Pop on a non-empty vector: back(), then pop_back().
Pop(cmds) == [command |-> cmds[Len(cmds)], commands |-> SubSeq(cmds, 1, Len(cmds) - 1)]

---------------------------------------------------------------------------
(* The lines the user types.  A line is written down as its parts: leading *)
(* whitespace, words free of whitespace, the whitespace between two words, *)
(* trailing whitespace.  Render makes the std::string getline delivers.    *)

Ln(lead, words, sep, trail) == [lead |-> lead, words |-> words, sep |-> sep, trail |-> trail]

RECURSIVE Join(_, _)
Join(words, sep) ==
    IF words = <<>> THEN EmptyString
    ELSE IF Len(words) = 1 THEN words[1]
    ELSE words[1] \o sep \o Join(Tail(words), sep)

Render(ls) == ls.lead \o Join(ls.words, ls.sep) \o ls.trail

LineSpecs ==
    { \* no word at all
      Ln(EmptyString, <<>>, StrSpace, EmptyString),
      Ln(StrSpace, <<>>, StrSpace, EmptyString),
      Ln(StrTab, <<>>, StrSpace, StrSpace),
      \* a command name alone
      Ln(EmptyString, <<StrSave>>, StrSpace, EmptyString),
      Ln(EmptyString, <<StrSaveas>>, StrSpace, EmptyString),
      Ln(EmptyString, <<StrOpen>>, StrSpace, EmptyString),
      Ln(EmptyString, <<StrPrint>>, StrSpace, EmptyString),
      Ln(EmptyString, <<StrClose>>, StrSpace, EmptyString),
      Ln(EmptyString, <<StrNew>>, StrSpace, EmptyString),
      Ln(EmptyString, <<StrSaveas>>, StrSpace, StrSpace),
      Ln(StrTab, <<StrOpen>>, StrSpace, EmptyString),
      \* a command name and a path
      Ln(EmptyString, <<StrSaveas, StrBTxt>>, StrSpace, EmptyString),
      Ln(EmptyString, <<StrSaveas, StrATxt>>, StrSpace, EmptyString),
      Ln(EmptyString, <<StrOpen, StrATxt>>, StrSpace, EmptyString),
      Ln(EmptyString, <<StrOpen, StrBTxt>>, StrTab, EmptyString),
      Ln(StrSpace, <<StrOpen, StrATxt>>, StrTab \o StrSpace, StrSpace),
      \* more words than the command takes
      Ln(EmptyString, <<StrSaveas, StrBTxt, StrATxt, StrBar>>, StrSpace \o StrSpace, EmptyString),
      Ln(EmptyString, <<StrSave, StrATxt>>, StrSpace, EmptyString),
      Ln(EmptyString, <<StrPrint, StrBar>>, StrTab, EmptyString),
      Ln(EmptyString, <<StrClose, StrBTxt>>, StrSpace, EmptyString),
      Ln(EmptyString, <<StrNew, StrBar, StrFoo>>, StrSpace, EmptyString),
      \* a first word that is no command name
      Ln(EmptyString, <<StrCapSave>>, StrSpace, EmptyString),
      Ln(EmptyString, <<StrFoo, StrBar>>, StrSpace, EmptyString),
      Ln(EmptyString, <<StrExit>>, StrSpace, EmptyString),
      Ln(EmptyString, <<StrQuit>>, StrSpace, EmptyString),
      Ln(EmptyString, <<StrSaveas \o StrBTxt>>, StrSpace, EmptyString),
      Ln(EmptyString, <<StrATxt, StrOpen>>, StrSpace, EmptyString),
      Ln(EmptyString, <<StrBar, StrSave>>, StrSpace, EmptyString) }

Lines == {Render(ls) : ls \in LineSpecs}

\* TokenizeInput(input) for each line, computed once.
Tokens == [line \in Lines |-> TokenizeInput(line)]

\* The session of the scenario: open a.txt, saveas b.txt, close.
Scenario ==
    << StrOpen \o StrSpace \o StrATxt, StrSaveas \o StrSpace \o StrBTxt, StrClose >>

\* The lines of a session that is later undone.
ClientLines ==
    { StrSave, StrSaveas \o StrSpace \o StrBTxt, StrOpen \o StrSpace \o StrATxt,
      StrPrint, StrClose, StrNew }

\* The paths a caller hands to Editor::SetPath.
ClientPaths == { StrATxt }

---------------------------------------------------------------------------
(* Application::ParseInput.                                                *)

\* Dispatch with the diagnostic of `open` without a path forgotten.
Dispatch_SilentMissing(commandname, args, ed, ptr) ==
    IF commandname = StrSave THEN [command |-> SaveCommand(ptr), out |-> <<>>]
    ELSE IF commandname = StrSaveas THEN
        IF args = <<>>
        THEN [command |-> nullptr, out |-> <<MsgMissingNewpath>>]
        ELSE [command |-> SaveAsCommand(ptr, ed, args[1]), out |-> <<>>]
    ELSE IF commandname = StrOpen THEN
        IF args = <<>>
        THEN [command |-> nullptr, out |-> <<>>]
        ELSE [command |-> OpenCommand(ptr, args[1]), out |-> <<>>]
    ELSE IF commandname = StrPrint THEN [command |-> PrintCommand(ptr), out |-> <<>>]
    ELSE IF commandname = StrClose THEN [command |-> CloseCommand(ptr), out |-> <<>>]
    ELSE IF commandname = StrNew THEN [command |-> NewCommand(ptr), out |-> <<>>]
    ELSE [command |-> nullptr, out |-> <<>>]

\* The if/else chain of ParseInput, lines 171-199, for a command name and
\* the tokens after it.
Dispatch(commandname, args, ed, ptr) ==
    IF commandname = StrSave THEN [command |-> SaveCommand(ptr), out |-> <<>>]
    ELSE IF commandname = StrSaveas THEN
        IF args = <<>>
        THEN [command |-> nullptr, out |-> <<MsgMissingNewpath>>]
        ELSE [command |-> SaveAsCommand(ptr, ed, args[1]), out |-> <<>>]
    ELSE IF commandname = StrOpen THEN
        IF args = <<>>
        THEN [command |-> nullptr, out |-> <<MsgMissingFilepath>>]
        ELSE [command |-> OpenCommand(ptr, args[1]), out |-> <<>>]
    ELSE IF commandname = StrPrint THEN [command |-> PrintCommand(ptr), out |-> <<>>]
    ELSE IF commandname = StrClose THEN [command |-> CloseCommand(ptr), out |-> <<>>]
    ELSE IF commandname = StrNew THEN [command |-> NewCommand(ptr), out |-> <<>>]
    ELSE [command |-> nullptr, out |-> <<>>]

\* What tokens[0] of an empty vector may read, if the read does not fault.
GarbageNames == {EmptyString, StrSave, StrOpen, StrFoo}

\* ParseInput that takes the last token for the command name.
ParseInput_LastToken(line, ed, ptr) ==
    LET tokens == Tokens[line] IN
    IF tokens # <<>>
    THEN {[crashed |-> FALSE, ub |-> FALSE]
             @@ Dispatch(tokens[Len(tokens)], Tail(tokens), ed, ptr)}
    ELSE {[crashed |-> TRUE, ub |-> TRUE, command |-> nullptr, out |-> <<>>]}
         \cup {[crashed |-> FALSE, ub |-> TRUE] @@ Dispatch(g, <<>>, ed, ptr) : g \in GarbageNames}

\* ParseInput without args.erase(args.begin()): the name stays among the arguments.
ParseInput_KeepName(line, ed, ptr) ==
    LET tokens == Tokens[line] IN
    IF tokens # <<>>
    THEN {[crashed |-> FALSE, ub |-> FALSE] @@ Dispatch(tokens[1], tokens, ed, ptr)}
    ELSE {[crashed |-> TRUE, ub |-> TRUE, command |-> nullptr, out |-> <<>>]}
         \cup {[crashed |-> FALSE, ub |-> TRUE] @@ Dispatch(g, <<>>, ed, ptr) : g \in GarbageNames}

\* The outcomes of ParseInput(input).  With at least one token there is
\* one.  With none, tokens[0] and args.erase(args.begin()) act on an empty
\* vector, which is undefined: the process faults, or it goes on with an
\* arbitrary command name and no arguments.
ParseInput(line, ed, ptr) ==
    LET tokens == Tokens[line] IN
    IF tokens # <<>>
    THEN {[crashed |-> FALSE, ub |-> FALSE] @@ Dispatch(tokens[1], Tail(tokens), ed, ptr)}
    ELSE {[crashed |-> TRUE, ub |-> TRUE, command |-> nullptr, out |-> <<>>]}
         \cup {[crashed |-> FALSE, ub |-> TRUE] @@ Dispatch(g, <<>>, ed, ptr) : g \in GarbageNames}

---------------------------------------------------------------------------
(* Observers: they record what happened and the program does not read them. *)

\* The command object with a note of the receiver's path at the moment its
\* constructor ran.
Born(cmd, ed) == cmd @@ [born |-> ed.filepath]

\* scenario counts the lines of Scenario read so far while the session
\* consists of nothing else; any other line switches it off.
Off == Len(Scenario) + 1

Track(sc, line) ==
    IF sc < Len(Scenario) /\ line = Scenario[sc + 1] THEN sc + 1 ELSE Off

\* A pop or an undo belongs to the scenario only once all its lines are read.
TrackCaller(sc) == IF sc = Len(Scenario) THEN sc ELSE Off

---------------------------------------------------------------------------
(* Application::Run, one iteration of `while (true)`.                      *)

\* One iteration that reads `line`, with ParseInput ending as `r`.
RunLine(line, r) ==
    /\ last' = [op |-> "Run", input |-> line]
    /\ scenario' = Track(scenario, line)
    /\ ub' = (ub \/ r.ub)
    /\ UNCHANGED <<popped, command>>
    /\ IF r.crashed
       THEN /\ pc' = "crashed"
            /\ out' = <<MsgPrompt>>
            /\ calls' = <<>>
            /\ UNCHANGED <<editor, commands, allocated, executed>>
       ELSE IF r.command # nullptr
       THEN LET ex == Execute(r.command, editor) IN
            /\ allocated < MaxCmds
            /\ allocated' = allocated + 1
            /\ editor' = ex.ed
            /\ calls' = ex.calls
            /\ executed' = Append(executed, r.command.ptr)
            /\ commands' = Push(commands, Born(r.command, editor))
            /\ out' = <<MsgPrompt>> \o r.out \o ex.out
            /\ UNCHANGED pc
       ELSE /\ out' = <<MsgPrompt>> \o r.out \o <<MsgNotRecognized>>
            /\ calls' = <<>>
            /\ UNCHANGED <<editor, commands, allocated, pc, executed>>

\* getline at end of input leaves `input` empty: it is the EmptyString line.
Run(lines) ==
    /\ pc = "awaiting"
    /\ \E line \in lines :
          \E r \in ParseInput(line, editor, allocated + 1) : RunLine(line, r)

---------------------------------------------------------------------------
(* The same iteration statement by statement: lines 142-147, line 151 and  *)
(* line 153 are one step each, so that the states between them exist.      *)

\* Lines 142-147 with ParseInput ending as `r`, and lines 155-157 when it
\* returned nullptr.
ParseLine(line, r) ==
    /\ last' = [op |-> "Run", input |-> line]
    /\ scenario' = Track(scenario, line)
    /\ ub' = (ub \/ r.ub)
    /\ calls' = <<>>
    /\ UNCHANGED <<popped, editor, commands, executed>>
    /\ IF r.crashed
       THEN /\ pc' = "crashed"
            /\ out' = <<MsgPrompt>>
            /\ UNCHANGED <<allocated, command>>
       ELSE IF r.command # nullptr
       THEN /\ allocated < MaxCmds
            /\ allocated' = allocated + 1
            /\ command' = Born(r.command, editor)
            /\ out' = <<MsgPrompt>> \o r.out
            /\ pc' = "parsed"
       ELSE /\ out' = <<MsgPrompt>> \o r.out \o <<MsgNotRecognized>>
            /\ UNCHANGED <<allocated, command, pc>>

StepParse(lines) ==
    /\ pc = "awaiting"
    /\ \E line \in lines :
          \E r \in ParseInput(line, editor, allocated + 1) : ParseLine(line, r)

\* Line 151 left out: Run goes on to Push without calling Execute.
StepExecute_Skipped ==
    /\ pc = "parsed"
    /\ pc' = "executed"
    /\ out' = <<>>
    /\ calls' = <<>>
    /\ UNCHANGED <<editor, executed, commands, allocated, ub, popped, last, scenario, command>>

\* Line 151: command->Execute().
StepExecute ==
    /\ pc = "parsed"
    /\ LET ex == Execute(command, editor) IN
          /\ editor' = ex.ed
          /\ out' = ex.out
          /\ calls' = ex.calls
    /\ executed' = Append(executed, command.ptr)
    /\ pc' = "executed"
    /\ UNCHANGED <<commands, allocated, ub, popped, last, scenario, command>>

\* Line 153: commandhistory.Push(command); the iteration ends.
StepPush ==
    /\ pc = "executed"
    /\ commands' = Push(commands, command)
    /\ command' = nullptr
    /\ out' = <<>>
    /\ calls' = <<>>
    /\ pc' = "awaiting"
    /\ UNCHANGED <<editor, allocated, ub, popped, last, scenario, executed>>

---------------------------------------------------------------------------
(* A caller that undoes: CommandHistory::Pop, Command::Undo and            *)
(* Editor::SetPath are public, and Run itself never calls them.  The       *)
(* caller keeps every pointer Pop returned and may undo any of them.       *)

\* Pop with a guard: on an empty vector it returns nullptr, which the caller
\* does not keep, and leaves the vector alone.
PopStep_Guarded ==
    /\ pc = "awaiting"
    /\ last' = [op |-> "Pop"]
    /\ out' = <<>>
    /\ scenario' = TrackCaller(scenario)
    /\ calls' = <<>>
    /\ UNCHANGED <<editor, allocated, command, executed>>
    /\ IF commands # <<>>
       THEN /\ popped' = Append(popped, Pop(commands).command)
            /\ commands' = Pop(commands).commands
            /\ UNCHANGED <<pc, ub>>
       ELSE UNCHANGED <<pc, ub, popped, commands>>

\* commandhistory.Pop().  On an empty vector back() and pop_back() are
\* undefined: the process faults, or a pointer from outside the elements
\* comes back and the vector is left corrupt.
PopStep ==
    /\ pc = "awaiting"
    /\ last' = [op |-> "Pop"]
    /\ out' = <<>>
    /\ scenario' = TrackCaller(scenario)
    /\ calls' = <<>>
    /\ UNCHANGED <<editor, allocated, command, executed>>
    /\ IF commands # <<>>
       THEN /\ popped' = Append(popped, Pop(commands).command)
            /\ commands' = Pop(commands).commands
            /\ UNCHANGED <<pc, ub>>
       ELSE /\ ub' = TRUE
            /\ \E outcome \in {"crashed", "corrupt"} :
                  /\ pc' = outcome
                  /\ popped' = IF outcome = "corrupt" THEN Append(popped, dangling)
                                                      ELSE popped
            /\ UNCHANGED commands

\* command->Undo() on a command Pop has returned.
UndoStep ==
    /\ pc = "awaiting"
    /\ \E i \in DOMAIN popped :
          LET un == Undo(popped[i], editor) IN
          /\ editor' = un.ed
          /\ out' = un.out
          /\ calls' = un.calls
          /\ last' = [op |-> "Undo", command |-> popped[i]]
    /\ scenario' = TrackCaller(scenario)
    /\ UNCHANGED <<commands, allocated, pc, ub, popped, command, executed>>

\* editor.SetPath(path), called directly.
SetPathStep ==
    /\ pc = "awaiting"
    /\ \E path \in ClientPaths :
          LET r == EditorSetPath(editor, path) IN
          /\ editor' = r.ed
          /\ out' = r.out
          /\ calls' = r.calls
    /\ last' = [op |-> "SetPath"]
    /\ scenario' = Off
    /\ UNCHANGED <<commands, allocated, pc, ub, popped, command, executed>>

---------------------------------------------------------------------------
(* Specifications.                                                         *)

\* Application(): an Editor(), an empty history; main() then calls Run().
Init ==
    /\ editor = EditorDefault
    /\ commands = <<>>
    /\ allocated = 0
    /\ out = <<>>
    /\ pc = "awaiting"
    /\ ub = FALSE
    /\ popped = <<>>
    /\ last = [op |-> "Init"]
    /\ scenario = 0
    /\ command = nullptr
    /\ calls = <<>>
    /\ executed = <<>>

\* The program as main() runs it: the dispatcher loop alone.
Next == Run(Lines)

Spec == Init /\ [][Next]_vars

\* The dispatcher loop and a caller that pops and undoes.
NextUndo == Run(ClientLines) \/ PopStep \/ UndoStep

SpecUndo == Init /\ [][NextUndo]_vars

\* The same, with a caller that also sets the receiver's path.
NextClient == Run(ClientLines) \/ PopStep \/ UndoStep \/ SetPathStep

SpecClient == Init /\ [][NextClient]_vars

\* The dispatcher loop alone, statement by statement.
NextSteps == StepParse(Lines) \/ StepExecute \/ StepPush

SpecSteps == Init /\ [][NextSteps]_vars

---------------------------------------------------------------------------
(* What the claims speak of.                                               *)

CommandNames == {StrSave, StrSaveas, StrOpen, StrPrint, StrClose, StrNew}
NeedsArg     == {StrSaveas, StrOpen}

VariantOf(name) ==
    CASE name = StrSave   -> "Save"
      [] name = StrSaveas -> "SaveAs"
      [] name = StrOpen   -> "Open"
      [] name = StrPrint  -> "Print"
      [] name = StrClose  -> "Close"
      [] name = StrNew    -> "New"

EditorMsgs == {MsgSave, MsgSaveAs, MsgOpen, MsgPrint, MsgClose, MsgRevert, MsgCreateNew}
DiagMsgs   == {MsgMissingNewpath, MsgMissingFilepath, MsgNotRecognized}

Emitted(o, m)    == \E i \in DOMAIN o : o[i] = m
CountIn(o, msgs) == Cardinality({i \in DOMAIN o : o[i] \in msgs})

\* The words each line was rendered from, computed once.
WordsOf == [line \in Lines |-> (CHOOSE ls \in LineSpecs : Render(ls) = line).words]

\* The words of the line the last step read, when it was an iteration of Run.
Ran       == last.op = "Run"
ReadWords == WordsOf[last.input]

\* A line, by its words w.
HasName(w)       == w # <<>> /\ w[1] \in CommandNames
ArgsSatisfied(w) == HasName(w) /\ (w[1] \in NeedsArg => Len(w) >= 2)
MissingArg(w)    == HasName(w) /\ w[1] \in NeedsArg /\ Len(w) = 1
Unrecognized(w)  == w # <<>> /\ w[1] \notin CommandNames
NoWords(w)       == w = <<>>

\* The last step was an iteration of Run that read the line of ls.
JustRan(ls) == last.op = "Run" /\ last.input = Render(ls)

Top(cmds) == cmds[Len(cmds)]
Kinds(cmds) == [i \in DOMAIN cmds |-> cmds[i].kind]
Ptrs(cmds)  == [i \in DOMAIN cmds |-> cmds[i].ptr]

---------------------------------------------------------------------------
(* The dispatcher: claims checked under Spec.                              *)

\* C1: an iteration of Run on a line whose first word is a command name and
\* whose argument requirement is met builds exactly one command, of the
\* variant of that name, and the history afterwards is the history before
\* with this command appended.
C1_RecognizedLinePushesOne ==
    [][(Ran' /\ ArgsSatisfied(ReadWords')) =>
          /\ allocated' = allocated + 1
          /\ Len(commands') = Len(commands) + 1
          /\ SubSeq(commands', 1, Len(commands)) = commands
          /\ Top(commands').kind = VariantOf(ReadWords'[1])
          /\ Top(commands').ptr = allocated']_vars

\* C1 witness: `saveas b.txt` was just pushed on top of two older commands.
C1_Witness ==
    /\ JustRan(Ln(EmptyString, <<StrSaveas, StrBTxt>>, StrSpace, EmptyString))
    /\ Len(commands) = 3
    /\ Top(commands).kind = "SaveAs"

\* C2: an iteration of Run on a line whose first word is no command name
\* builds no command, calls no receiver operation, prints the "not
\* recognized" diagnostic and leaves the history as it was.
C2_UnrecognizedLineDoesNothing ==
    [][(Ran' /\ Unrecognized(ReadWords')) =>
          /\ allocated' = allocated
          /\ commands' = commands
          /\ editor' = editor
          /\ CountIn(out', EditorMsgs) = 0
          /\ Emitted(out', MsgNotRecognized)]_vars

\* C2 witness: `foo bar` and `Save` were refused with a command in the history.
C2_Witness ==
    /\ \/ JustRan(Ln(EmptyString, <<StrFoo, StrBar>>, StrSpace, EmptyString))
       \/ JustRan(Ln(EmptyString, <<StrCapSave>>, StrSpace, EmptyString))
    /\ Emitted(out, MsgNotRecognized)
    /\ Len(commands) = 2

\* C3: an iteration of Run on `saveas` or `open` without an argument builds
\* no command, calls no receiver operation, prints the "missing argument"
\* diagnostic of that command, leaves the history and the receiver's path
\* as they were, and the loop awaits the next line.
C3_MissingArgumentDoesNothing ==
    [][(Ran' /\ MissingArg(ReadWords')) =>
          /\ allocated' = allocated
          /\ commands' = commands
          /\ editor'.filepath = editor.filepath
          /\ CountIn(out', EditorMsgs) = 0
          /\ Emitted(out', IF ReadWords'[1] = StrSaveas THEN MsgMissingNewpath
                                                        ELSE MsgMissingFilepath)
          /\ pc' = "awaiting"]_vars

\* C3 witness: `saveas ` without a path was refused with a command in the history.
C3_Witness ==
    /\ JustRan(Ln(EmptyString, <<StrSaveas>>, StrSpace, StrSpace))
    /\ Emitted(out, MsgMissingNewpath)
    /\ Len(commands) = 1
    /\ pc = "awaiting"

\* C7: a line without any word is handled as unrecognized input: the "not
\* recognized" diagnostic, no command, no undefined read of tokens[0], and
\* the loop awaits the next line.
C7_EmptyLineIsUnrecognized ==
    (Ran /\ NoWords(ReadWords)) =>
        /\ ~ub
        /\ pc = "awaiting"
        /\ out = <<MsgPrompt, MsgNotRecognized>>

\* C8 as stated: a line with an unknown name and a line with a missing
\* argument each make Run print exactly one diagnostic.
C8_OneDiagnosticPerError ==
    (Ran /\ (Unrecognized(ReadWords) \/ MissingArg(ReadWords))) =>
        CountIn(out, DiagMsgs) = 1

\* C8 amended: neither error builds a command or pushes one; an unknown
\* name prints the "not recognized" diagnostic alone, a missing argument
\* prints its "missing argument" diagnostic and then "not recognized" too.
C8_ErrorDiagnostics ==
    [][/\ (Ran' /\ Unrecognized(ReadWords')) =>
             /\ allocated' = allocated /\ commands' = commands
             /\ out' = <<MsgPrompt, MsgNotRecognized>>
       /\ (Ran' /\ MissingArg(ReadWords')) =>
             /\ allocated' = allocated /\ commands' = commands
             /\ out' = <<MsgPrompt,
                         IF ReadWords'[1] = StrSaveas THEN MsgMissingNewpath
                                                      ELSE MsgMissingFilepath,
                         MsgNotRecognized>>]_vars

\* C8 witness: `open` without a path printed both diagnostics.
C8_Witness ==
    /\ JustRan(Ln(StrTab, <<StrOpen>>, StrSpace, EmptyString))
    /\ out = <<MsgPrompt, MsgMissingFilepath, MsgNotRecognized>>

\* C9: the command built for `saveas X ...` or `open X ...` holds as its
\* path exactly the word X that follows the name, whatever whitespace
\* surrounds it and whatever words follow; words after save, print, close
\* and new do not keep the command from being built.
C9_ArgumentCapturedVerbatim ==
    [][(Ran' /\ HasName(ReadWords') /\ Len(ReadWords') >= 2) =>
          /\ allocated' = allocated + 1
          /\ commands' = Append(commands, Top(commands'))
          /\ Top(commands').kind = VariantOf(ReadWords'[1])
          /\ ReadWords'[1] = StrSaveas => Top(commands').newpath = ReadWords'[2]
          /\ ReadWords'[1] = StrOpen => Top(commands').filepath = ReadWords'[2]]_vars

\* C9 witness: ` open <tab> a.txt ` built Open("a.txt") after
\* `saveas  b.txt  a.txt  bar` built SaveAs("b.txt").
C9_Witness ==
    /\ JustRan(Ln(StrSpace, <<StrOpen, StrATxt>>, StrTab \o StrSpace, StrSpace))
    /\ Len(commands) = 2
    /\ commands[2].kind = "Open" /\ commands[2].filepath = StrATxt
    /\ commands[1].kind = "SaveAs" /\ commands[1].newpath = StrBTxt

\* C10: whatever lines were read, Run is awaiting the next line: it has not
\* returned and the process has not stopped.
C10_AlwaysAwaitingInput == pc = "awaiting"

---------------------------------------------------------------------------
(* The history and Undo: claims checked under SpecUndo and SpecClient.     *)

\* The command of cmds pushed last.  Run pushes a command right after `new`
\* built it, so among the commands of the history it has the greatest ptr.
MostRecent(cmds) ==
    cmds[CHOOSE i \in DOMAIN cmds : \A j \in DOMAIN cmds : cmds[j].ptr <= cmds[i].ptr]

\* C4: Pop on a non-empty history returns the command pushed most recently
\* among those not yet popped and removes it and nothing else; when three
\* commands C1, C2, C3 were pushed in all and the first pop came after the
\* third push, three pops return C3, C2, C1 and empty the history.
C4_PopIsLastInFirstOut ==
    /\ [][(last'.op = "Pop" /\ commands # <<>>) =>
            /\ popped' = Append(popped, MostRecent(commands))
            /\ commands' = SelectSeq(commands, LAMBDA c : c.ptr # MostRecent(commands).ptr)
            /\ pc' = "awaiting"]_vars
    /\ []((allocated = 3 /\ Len(popped) = 3 /\ popped[1].kind # "dangling") =>
            (popped[1].ptr = 3 => (Ptrs(popped) = <<3, 2, 1>> /\ commands = <<>>)))

\* C4 witness: three commands were pushed and then popped, the first pushed last.
C4_Witness ==
    /\ last.op = "Pop"
    /\ Len(popped) = 3
    /\ popped[1].ptr = 3 /\ popped[3].ptr = 1
    /\ commands = <<>>

\* C5: Undo of a SaveAs command leaves the receiver's path equal to the
\* path the receiver had when the command was built, whatever was executed,
\* set or undone since and in whatever order the commands are undone.
C5_SaveAsUndoRestoresPathAtCreation ==
    (last.op = "Undo" /\ last.command.kind = "SaveAs") =>
        editor.filepath = last.command.born

\* C5 witness: a SaveAs built at the empty path is undone after the path
\* became "a.txt" and a later SaveAs, built at "a.txt", was popped before it.
C5_Witness ==
    /\ last.op = "Undo"
    /\ last.command.kind = "SaveAs"
    /\ last.command.born = EmptyString
    /\ editor.filepath = EmptyString
    /\ \E i \in DOMAIN popped :
          /\ popped[i].kind = "SaveAs"
          /\ popped[i].born = StrATxt
          /\ popped[i].ptr > last.command.ptr

\* The session was `open a.txt`, `saveas b.txt`, `close` and nothing else,
\* followed by pops and undos only.
AfterScenario == scenario = Len(Scenario) /\ ~ub

\* C6 as stated: after the scenario, undoing the popped SaveAs sets the
\* receiver's path to "a.txt".
C6_SaveAsUndoRestoresOpenedPath ==
    (AfterScenario /\ last.op = "Undo" /\ last.command.kind = "SaveAs") =>
        editor.filepath = StrATxt

\* C6 amended: after the scenario the history and the popped commands
\* together are Open("a.txt"), SaveAs("b.txt"), Close in this order, popped
\* from the end; the SaveAs recorded the empty path as its old path,
\* because Open does not change the receiver's path, and undoing it sets
\* the receiver's path to the empty path.
C6_ScenarioHistoryAndUndo ==
    AfterScenario =>
        /\ Len(commands) + Len(popped) = 3
        /\ Kinds(commands) = SubSeq(<<"Open", "SaveAs", "Close">>, 1, Len(commands))
        /\ Kinds(popped) = SubSeq(<<"Close", "SaveAs", "Open">>, 1, Len(popped))
        /\ \A c \in {commands[i] : i \in DOMAIN commands} \cup {popped[i] : i \in DOMAIN popped} :
              /\ c.kind = "Open" => c.filepath = StrATxt
              /\ c.kind = "SaveAs" => (c.newpath = StrBTxt /\ c.oldpath = EmptyString)
        /\ (last.op = "Undo" /\ last.command.kind = "SaveAs") =>
              editor.filepath = EmptyString

\* C6 witness: all three commands are popped and the SaveAs was just undone.
C6_Witness ==
    /\ AfterScenario
    /\ Kinds(popped) = <<"Close", "SaveAs", "Open">>
    /\ commands = <<>>
    /\ last.op = "Undo"
    /\ last.command.kind = "SaveAs"

---------------------------------------------------------------------------
(* Order inside an iteration: claim checked under SpecSteps.               *)

\* How often x occurs in the sequence seq.
Times(seq, x) == Cardinality({i \in DOMAIN seq : seq[i] = x})

InHistory(ptr) == \E i \in DOMAIN commands : commands[i].ptr = ptr

\* C11: a command built by ParseInput is executed first and pushed second:
\* every command in the history has had Execute called exactly once, a
\* command just built is neither executed nor in the history, and a command
\* just executed is not yet in the history.
C11_ExecutedThenPushed ==
    /\ \A i \in DOMAIN commands : Times(executed, commands[i].ptr) = 1
    /\ pc = "parsed" =>
          (command # nullptr /\ Times(executed, command.ptr) = 0 /\ ~InHistory(command.ptr))
    /\ pc = "executed" =>
          (command # nullptr /\ Times(executed, command.ptr) = 1 /\ ~InHistory(command.ptr))

\* C11 witness: the third command has been executed and is about to be pushed.
C11_Witness ==
    /\ pc = "executed"
    /\ Len(commands) = 2
    /\ command.ptr = 3
    /\ executed = <<1, 2, 3>>

---------------------------------------------------------------------------
(* The dispatcher again: claims checked under Spec.                        *)

\* C12: under the dispatcher loop the history only grows at its end: no step
\* pops or undoes, a step leaves the history as it was or appends the one
\* command built for the line it read, and the history is at every moment
\* the commands built so far in the order they were built.
C12_HistoryAppendOnly ==
    /\ [][\/ commands' = commands /\ allocated' = allocated
          \/ /\ Ran'
             /\ allocated' = allocated + 1
             /\ Len(commands') = Len(commands) + 1
             /\ SubSeq(commands', 1, Len(commands)) = commands
             /\ Top(commands').ptr = allocated']_vars
    /\ [](/\ Len(commands) = allocated
          /\ Ptrs(commands) = [i \in 1..allocated |-> i]
          /\ popped = <<>>
          /\ last.op \in {"Init", "Run"})

\* C12 witness: a refused line left a history of three commands as it was.
C12_Witness ==
    /\ Ran /\ Unrecognized(ReadWords)
    /\ Len(commands) = 3
    /\ Ptrs(commands) = <<1, 2, 3>>

---------------------------------------------------------------------------
(* Undo and Pop again: claims checked under SpecUndo and SpecClient.       *)

\* C13: Undo of a Close command calls the receiver's Open with the path the
\* receiver holds when Undo runs, whatever the path was when the command
\* was built or executed.
C13_CloseUndoOpensCurrentPath ==
    [][(last'.op = "Undo" /\ last'.command.kind = "Close") =>
          calls' = <<Call("Open", <<editor.filepath>>)>>]_vars

\* C13 witness: a Close built and executed at path "a.txt" is undone after
\* the undo of an older SaveAs set the path back to the empty one, and
\* reopens the empty path.
C13_Witness ==
    /\ last.op = "Undo"
    /\ last.command.kind = "Close"
    /\ last.command.born = StrATxt
    /\ calls = <<Call("Open", <<EmptyString>>)>>

\* C14: Pop on an empty history has no defined result: it does not return
\* "nothing" and leave the history as it was, it is undefined behaviour and
\* the program does not go on in a defined state.
C14_PopOnEmptyIsUndefined ==
    [][(last'.op = "Pop" /\ commands = <<>>) => (ub' /\ pc' # "awaiting")]_vars

\* C14 witness: three commands were pushed and popped, and a fourth Pop
\* ended the process.
C14_Witness ==
    /\ last.op = "Pop"
    /\ allocated = 3
    /\ Len(popped) = 3
    /\ commands = <<>>
    /\ ub
    /\ pc = "crashed"

\* The receiver call each variant's Execute makes, for the words w of the
\* line the command was built from.
ExecuteCallFor(w) ==
    CASE w[1] = StrSave   -> Call("Save", <<>>)
      [] w[1] = StrSaveas -> Call("SaveAs", <<w[2]>>)
      [] w[1] = StrOpen   -> Call("Open", <<w[2]>>)
      [] w[1] = StrPrint  -> Call("Print", <<>>)
      [] w[1] = StrClose  -> Call("Close", <<>>)
      [] w[1] = StrNew    -> Call("CreateNew", <<>>)

\* The receiver calls each variant's Undo makes, for the command c and the
\* path the receiver holds when Undo runs.
UndoCallsFor(c, path) ==
    CASE c.kind = "Save"   -> <<Call("Revert", <<>>)>>
      [] c.kind = "SaveAs" -> <<Call("SetPath", <<c.oldpath>>)>>
      [] c.kind = "Open"   -> <<Call("Close", <<>>)>>
      [] c.kind = "Print"  -> <<>>
      [] c.kind = "Close"  -> <<Call("Open", <<path>>)>>
      [] c.kind = "New"    -> <<Call("Close", <<>>)>>

\* C15: Execute and Undo of each variant call exactly the receiver operation
\* of the mapping: Save -> Save / Revert, SaveAs -> SaveAs(newpath) /
\* SetPath(oldpath), Open -> Open(path) / Close, Print -> Print / nothing,
\* Close -> Close / Open(current path), New -> CreateNew / Close; Undo of a
\* Print changes nothing in the receiver and prints nothing.
C15_ExecuteAndUndoFollowMapping ==
    [][/\ (Ran' /\ Len(commands') = Len(commands) + 1) =>
             calls' = <<ExecuteCallFor(ReadWords')>>
       /\ last'.op = "Undo" =>
             /\ calls' = UndoCallsFor(last'.command, editor.filepath)
             /\ last'.command.kind = "Print" => (editor' = editor /\ out' = <<>>)]_vars

\* C15 witness: a Print, executed by Run, has been popped and undone, after a
\* SaveAs built at path "a.txt" was popped too.
C15_Witness ==
    /\ last.op = "Undo"
    /\ last.command.kind = "Print"
    /\ last.command.ptr \in {executed[i] : i \in DOMAIN executed}
    /\ calls = <<>>
    /\ out = <<>>
    /\ editor.filepath = StrATxt
    /\ \E i \in DOMAIN popped : popped[i].kind = "SaveAs"

(* The receiver's path under the dispatcher loop: checked under Spec. *)

\* C16: Execute of any variant, Open and SaveAs included, leaves the
\* receiver's path unchanged; under the dispatcher loop alone the path
\* therefore stays at its initial empty value, and every SaveAs command
\* created there records the empty path as its old path.
C16_PathStaysEmptyUnderRun ==
    /\ [][Ran' => editor'.filepath = editor.filepath]_vars
    /\ [](/\ editor.filepath = EmptyString
          /\ \A i \in DOMAIN commands :
                commands[i].kind = "SaveAs" =>
                    (commands[i].oldpath = EmptyString /\ commands[i].born = EmptyString))

\* C16 witness: an Open and a SaveAs were executed, then a second SaveAs was
\* created and executed; the path is still empty.
C16_Witness ==
    /\ Ran
    /\ Kinds(commands) = <<"Open", "SaveAs", "SaveAs">>
    /\ commands[1].filepath # EmptyString
    /\ commands[2].newpath # EmptyString
    /\ commands[3].oldpath = EmptyString
    /\ editor.filepath = EmptyString

====
